---- MODULE Spec2Model ----
(***************************************************************************)
(* A model of the jcmsj/epub reader: the archive Reader (init, read,       *)
(* partialSearch), the spine parser (parseSpine), the spine-order table of *)
(* contents (walkSpine), the open sequence (open, parseRootFile,           *)
(* prepareEmit) and the Retriever (searchManifestOrPanic, getContent,      *)
(* getImage).                                                              *)
(*                                                                         *)
(* Strings the code inspects character by character (entry names) are      *)
(* sequences of one-character strings; strings it only compares or uses as *)
(* keys (ids, event names) are TLA+ strings.                               *)
(***************************************************************************)
EXTENDS Integers, Sequences, FiniteSets, TLC

VARIABLES
    \* ---- Reader (src/traits/Spine.ts) ----
    zip,        \* the archive blob: its entry listing, as getEntries returns it
    entries,    \* Reader.entries
    container,  \* Reader.container
    rpc,        \* position of Reader.init / of a read call
    rerr,       \* the error init failed with
    decoded,    \* indices of the entries Reader.init called getData of, in call order
    lastRead,   \* the read call that last settled: its name, type and outcome
    \* ---- walkSpine (src/src/toc/walkSpine.ts) ----
    wsSpine,    \* the Spine handed to walkSpine
    wsToc,      \* the TableOfContents it returned
    wsDone,     \* whether walkSpine has returned
    \* ---- open, parseRootFile (src/lib/index.ts) ----
    pkg,        \* the package of the root file: metadata, manifest, spine
    listeners,  \* the event names a listener is given for (EpubArgs.events)
    parts,      \* the Parts that parseRootFile builds
    pc,         \* position of open / parseRootFile
    err,        \* the error open failed with
    emitted,    \* the calls of emit, in order: event name and argument
    delivered,  \* the listener invocations, in order
    tocStrategy, \* the strategy that gave parseTOC its result
    \* ---- Retriever (src/lib/index.ts) ----
    lastCall    \* the Retriever call that last settled: its id and outcome

readerVars == <<zip, entries, container, rpc, rerr, decoded, lastRead>>
walkVars == <<wsSpine, wsToc, wsDone>>
openVars == <<pkg, listeners, parts, pc, err, emitted, delivered, tocStrategy>>
retrVars == <<lastCall>>
vars == <<readerVars, walkVars, openVars, retrVars>>

(***************************************************************************)
(* Bounds                                                                  *)
(***************************************************************************)
MaxEntries == 3     \* entries in an archive
MaxNameSegs == 2    \* segments a requested name is put together from

Undefined == "<undefined>"

(***************************************************************************)
(* Strings as character sequences                                          *)
(***************************************************************************)
UpperLetters ==
    <<"A","B","C","D","E","F","G","H","I","J","K","L","M",
      "N","O","P","Q","R","S","T","U","V","W","X","Y","Z">>
LowerLetters ==
    <<"a","b","c","d","e","f","g","h","i","j","k","l","m",
      "n","o","p","q","r","s","t","u","v","w","x","y","z">>

\* one character of String.prototype.toLowerCase
LowerChar(c) ==
    IF \E i \in 1..26 : UpperLetters[i] = c
    THEN LowerLetters[CHOOSE i \in 1..26 : UpperLetters[i] = c]
    ELSE c

toLowerCase(s) == [i \in 1..Len(s) |-> LowerChar(s[i])]

\* String.prototype.includes: needle occurs in hay as a contiguous run
includes(hay, needle) ==
    \E i \in 0..(Len(hay) - Len(needle)) :
        SubSeq(hay, i + 1, i + Len(needle)) = needle

HexDigits ==
    {"0","1","2","3","4","5","6","7","8","9",
     "a","b","c","d","e","f","A","B","C","D","E","F"}

\* The character a well-formed one-byte escape %XY stands for.  The escapes
\* that names of this model can hold are those over the digits 1 and 5;
\* 0x11 and 0x15 are control characters, written here ^Q and ^U.
EscapedChar(x, y) ==
    CASE x = "5" /\ y = "1" -> "Q"
      [] x = "5" /\ y = "5" -> "U"
      [] x = "1" /\ y = "1" -> "^Q"
      [] x = "1" /\ y = "5" -> "^U"

\* decodeURI throws URIError on a '%' that does not start an escape
RECURSIVE MalformedURI(_)
MalformedURI(s) ==
    IF s = <<>> THEN FALSE
    ELSE IF Head(s) = "%"
         THEN IF Len(s) >= 3 /\ s[2] \in HexDigits /\ s[3] \in HexDigits
              THEN MalformedURI(SubSeq(s, 4, Len(s)))
              ELSE TRUE
         ELSE MalformedURI(Tail(s))

RECURSIVE decodeURI(_)
decodeURI(s) ==
    IF s = <<>> THEN <<>>
    ELSE IF Head(s) = "%"
         THEN <<EscapedChar(s[2], s[3])>> \o decodeURI(SubSeq(s, 4, Len(s)))
         ELSE <<Head(s)>> \o decodeURI(Tail(s))

(***************************************************************************)
(* Reader: INFO, entries, read, partialSearch                              *)
(***************************************************************************)
INFO_MIME == "application/epub+zip"
INFO_TARGET == <<"m","i","m","e","t","y","p","e">>
INFO_CONTAINER_ID ==
    <<"m","e","t","a","-","i","n","f","/",
      "c","o","n","t","a","i","n","e","r",".","x","m","l">>

\* The entries an archive of this model is put together from: a file name,
\* the directory flag and the text the entry decodes to.
EntryPool ==
    { [filename |-> INFO_TARGET, directory |-> FALSE, content |-> INFO_MIME],
      [filename |-> INFO_TARGET, directory |-> FALSE, content |-> "application/zip"],
      [filename |-> <<"M","E","T","A","-","I","N","F","/",
                      "c","o","n","t","a","i","n","e","r",".","x","m","l">>,
       directory |-> FALSE, content |-> "<container/>"],
      [filename |-> <<"Q","/","q">>, directory |-> FALSE, content |-> "<html/>"],
      [filename |-> <<"q">>, directory |-> TRUE, content |-> ""],
      [filename |-> <<"U">>, directory |-> FALSE, content |-> "png"],
      [filename |-> <<"T","y","p","e">>, directory |-> FALSE, content |-> "text"] }

\* sequences of pairwise different elements of S, of length at most n
RECURSIVE Arrangements(_, _)
Arrangements(S, n) ==
    IF n = 0 THEN {<<>>}
    ELSE LET shorter == Arrangements(S, n - 1)
             longest == { b \in shorter : Len(b) = n - 1 }
         IN  shorter \cup
             UNION { { Append(a, e) :
                         e \in { x \in S : \A i \in 1..(n - 1) : a[i] # x } } :
                     a \in longest }

Archives == Arrangements(EntryPool, MaxEntries)

\* The names read is called with: an optional leading '/', then at most
\* MaxNameSegs segments.
NameSegments == { <<"q">>, <<"Q">>, <<"/">>, <<"%">>, <<"%","5","1">>, <<"U">> }

RECURSIVE SegSeqs(_)
SegSeqs(n) ==
    IF n = 0 THEN {<<>>}
    ELSE SegSeqs(n - 1) \cup
         { s \o g : s \in SegSeqs(n - 1), g \in NameSegments }

Names == SegSeqs(MaxNameSegs) \cup { <<"/">> \o s : s \in SegSeqs(MaxNameSegs) }

\* media types
XHTML == <<"a","p","p","l","i","c","a","t","i","o","n","/","x","h","t","m","l","+","x","m","l">>
SVG == <<"i","m","a","g","e","/","s","v","g","+","x","m","l">>
CSS == <<"t","e","x","t","/","c","s","s">>
PNG == <<"i","m","a","g","e","/","p","n","g">>
\* the type argument left out
NoType == <<Undefined>>
ReadTypes == { NoType, PNG }

NoError == [kind |-> "none", name |-> <<>>]
NotFoundError(name) == [kind |-> "NotFound", name |-> name]
URIError == [kind |-> "URIError", name |-> <<>>]

\* Reader.prepareGet(name)(predicate), given the index entries.find(predicate)
\* came to (0 for undefined): the entry, or the not-found error that carries
\* `name`
prepareGet(name, found) ==
    IF found # 0 THEN [file |-> found, error |-> NoError]
    ELSE [file |-> 0, error |-> NotFoundError(name)]

\* the name partialSearch looks for: leading '/' removed, then decodeURI,
\* then toLowerCase
StripSlash(name) ==
    IF Len(name) > 0 /\ name[1] = "/" THEN Tail(name) ELSE name

\* the predicate partialSearch hands to prepareGet
EntryMatches(n, fn) ==
    IF n.directory THEN FALSE
    ELSE LET nf == toLowerCase(n.filename)
         IN  includes(nf, fn) \/ includes(fn, nf)

\* entries.find(n => ...): the index of the first entry that matches, 0 if none
FindEntry(ents, fn) ==
    LET hits == { i \in 1..Len(ents) : EntryMatches(ents[i], fn) }
    IN  IF hits = {} THEN 0
        ELSE CHOOSE i \in hits : \A j \in hits : i <= j

\* partialSearch without the decodeURI step
partialSearchNoDecode(ents, name) ==
    LET fn == toLowerCase(StripSlash(name))
    IN  prepareGet(fn, FindEntry(ents, fn))

partialSearch(ents, name) ==
    IF MalformedURI(StripSlash(name)) THEN [file |-> 0, error |-> URIError]
    ELSE LET fn == toLowerCase(decodeURI(StripSlash(name)))
         IN  prepareGet(fn, FindEntry(ents, fn))

\* Reader.determineWriter
determineWriter(t) ==
    IF includes(t, <<"i","m","a","g","e","/">>) THEN "blob" ELSE "text"

\* Reader.read: the outcome of one call, and the entries it decodes
ReadOutcome(ents, name, type) ==
    LET found == partialSearch(ents, name)
    IN  IF found.file = 0
        THEN [ok |-> FALSE, file |-> 0, data |-> Undefined, as |-> Undefined,
              error |-> found.error]
        ELSE [ok |-> TRUE, file |-> found.file,
              data |-> ents[found.file].content, as |-> determineWriter(type),
              error |-> NoError]

ReadDecodes(ents, name, type) ==
    LET r == ReadOutcome(ents, name, type)
    IN  IF r.ok THEN <<r.file>> ELSE <<>>

NoRead == [name |-> <<>>, type |-> NoType, called |-> FALSE, decodes |-> <<>>,
           outcome |-> [ok |-> FALSE, file |-> 0, data |-> Undefined,
                        as |-> Undefined, error |-> NoError]]

\* MIMEError.unless with a string expected: the actual value must be exactly it
MIMEMatchesString(actual, expected) == actual = expected

EmptyArchiveError == [kind |-> "EmptyArchive", name |-> <<>>]
MIMEError(id) == [kind |-> "MIMEError", name |-> id]

NoContainer == [file |-> 0, data |-> Undefined, as |-> Undefined]
LoadedEntry(r) == [file |-> r.file, data |-> r.data, as |-> r.as]

checkMimeTypeNoCheck(ents) ==
    LET r == ReadOutcome(ents, INFO_TARGET, NoType)
    IN  IF ~r.ok THEN r.error ELSE NoError

\* Reader.checkMimeType: the error it throws, NoError when it returns
checkMimeType(ents) ==
    LET r == ReadOutcome(ents, INFO_TARGET, NoType)
    IN  IF ~r.ok THEN r.error
        ELSE IF MIMEMatchesString(r.data, INFO_MIME) THEN NoError
        ELSE MIMEError(INFO_TARGET)

\* Reader.init, up to its first await: the listing is taken from the archive
\* and an archive without entries is refused
GetEntries ==
    /\ rpc = "new"
    /\ entries' = zip
    /\ IF Len(zip) # 0
       THEN rpc' = "checkMimeType" /\ rerr' = rerr
       ELSE rpc' = "failed" /\ rerr' = EmptyArchiveError
    /\ UNCHANGED <<zip, container, decoded, lastRead, walkVars, openVars, retrVars>>

\* Reader.init: await this.checkMimeType()
CheckMimeType ==
    /\ rpc = "checkMimeType"
    /\ decoded' = decoded \o ReadDecodes(entries, INFO_TARGET, NoType)
    /\ LET e == checkMimeType(entries)
       IN  IF e = NoError
           THEN rpc' = "readContainer" /\ rerr' = rerr
           ELSE rpc' = "failed" /\ rerr' = e
    /\ UNCHANGED <<zip, entries, container, lastRead, walkVars, openVars, retrVars>>

\* Reader.init: this.container = await this.read(INFO.CONTAINER_ID)
ReadContainer ==
    /\ rpc = "readContainer"
    /\ decoded' = decoded \o ReadDecodes(entries, INFO_CONTAINER_ID, NoType)
    /\ LET r == ReadOutcome(entries, INFO_CONTAINER_ID, NoType)
       IN  IF r.ok
           THEN rpc' = "ready" /\ container' = LoadedEntry(r) /\ rerr' = rerr
           ELSE rpc' = "failed" /\ container' = container /\ rerr' = r.error
    /\ UNCHANGED <<zip, entries, lastRead, walkVars, openVars, retrVars>>

\* a call of Reader.read on the Reader that read() handed out
Read(name, type) ==
    /\ rpc = "ready"
    /\ rpc' = "returned"
    /\ lastRead' = [name |-> name, type |-> type, called |-> TRUE,
                    decodes |-> ReadDecodes(entries, name, type),
                    outcome |-> ReadOutcome(entries, name, type)]
    /\ UNCHANGED <<zip, entries, container, rerr, decoded, walkVars, openVars, retrVars>>

ReadCall == \E name \in Names, type \in ReadTypes : Read(name, type)

\* the caller takes the settled promise; the Reader is idle again
ReadReturn ==
    /\ rpc = "returned"
    /\ rpc' = "ready"
    /\ lastRead' = NoRead
    /\ UNCHANGED <<zip, entries, container, rerr, decoded, walkVars, openVars, retrVars>>

(***************************************************************************)
(* Items, Chapters and the TableOfContents                                 *)
(***************************************************************************)
MaxSpine == 3       \* items of a Spine handed to walkSpine

\* A manifest Item: its attributes id, href and media-type.  ref is the
\* identity of the object (two Items with equal attributes and different ref
\* are different objects); an Item without id attribute has id Undefined.
Item(ref, id, href, mediaType) ==
    [ref |-> ref, id |-> id, href |-> href, mediaType |-> mediaType]

\* TableOfContents, a Map from chapter id to Chapter: its entries in
\* insertion order
EmptyTOC == <<>>

TocHas(toc, key) == \E k \in 1..Len(toc) : toc[k].key = key

\* Map.prototype.set: a present key keeps its place and takes the new value,
\* a new key is appended
TocSet(toc, key, value) ==
    IF TocHas(toc, key)
    THEN [k \in 1..Len(toc) |->
            IF toc[k].key = key THEN [key |-> key, value |-> value] ELSE toc[k]]
    ELSE Append(toc, [key |-> key, value |-> value])

\* the element walkSpine builds: title and order, then the Item's own
\* attributes spread over them (an Item has no title or order attribute)
Chapter(item, order) ==
    [title |-> item.id, order |-> order,
     id |-> item.id, href |-> item.href, mediaType |-> item.mediaType]

RECURSIVE WalkFromOne(_, _, _, _)
WalkFromOne(contents, i, order, toc) ==
    IF i > Len(contents) THEN toc
    ELSE LET element == Chapter(contents[i], order + 1)
         IN  IF element.id = Undefined
             THEN WalkFromOne(contents, i + 1, order + 1, toc)
             ELSE WalkFromOne(contents, i + 1, order + 1,
                              TocSet(toc, contents[i].id, element))

RECURSIVE WalkNoSkip(_, _, _, _)
WalkNoSkip(contents, i, order, toc) ==
    IF i > Len(contents) THEN toc
    ELSE WalkNoSkip(contents, i + 1, order + 1,
                    TocSet(toc, contents[i].id, Chapter(contents[i], order)))

\* the loop of walkSpine from item i on: order is the counter, which order++
\* advances for every item, before the item without id is skipped
RECURSIVE WalkFrom(_, _, _, _)
WalkFrom(contents, i, order, toc) ==
    IF i > Len(contents) THEN toc
    ELSE LET element == Chapter(contents[i], order)
         IN  IF element.id = Undefined
             THEN WalkFrom(contents, i + 1, order + 1, toc)
             ELSE WalkFrom(contents, i + 1, order + 1,
                           TocSet(toc, contents[i].id, element))

walkSpineOrderFromOne(spine) == WalkFromOne(spine.contents, 1, 0, EmptyTOC)
walkSpineNoSkip(spine) == WalkNoSkip(spine.contents, 1, 0, EmptyTOC)

walkSpine(spine) == WalkFrom(spine.contents, 1, 0, EmptyTOC)

\* the Items a Spine handed to walkSpine is put together from
WalkItems ==
    { Item(1, "a", <<"Q","/","q">>, XHTML),
      Item(2, "b", <<"q","q">>, XHTML),
      Item(3, "c", <<"U">>, PNG),
      Item(4, Undefined, <<"q">>, XHTML),
      Item(5, "a", <<"U","/","q">>, XHTML) }

RECURSIVE SeqsUpTo(_, _)
SeqsUpTo(S, n) ==
    IF n = 0 THEN {<<>>}
    ELSE SeqsUpTo(S, n - 1) \cup
         { Append(q, e) : q \in { r \in SeqsUpTo(S, n - 1) : Len(r) = n - 1 },
                          e \in S }

WalkSpines ==
    { [toc |-> "ncx", contents |-> c] : c \in SeqsUpTo(WalkItems, MaxSpine) }

\* one call of walkSpine
WalkSpine ==
    /\ ~wsDone
    /\ wsToc' = walkSpine(wsSpine)
    /\ wsDone' = TRUE
    /\ UNCHANGED <<wsSpine, readerVars, openVars, retrVars>>

(***************************************************************************)
(* parseSpine                                                              *)
(***************************************************************************)
MaxItems == 2       \* item elements of a package's manifest
MaxRefs == 2        \* itemref elements of a package's spine

\* what a lookup that finds nothing gives (undefined)
NoItem == Item(0, Undefined, <<>>, <<>>)

\* the key parseManifest files an item under: its id; an item without id
\* attribute lands under the key "undefined"
ManifestKey(raw) == IF raw.id = Undefined THEN "undefined" ELSE raw.id

\* parseManifest: the mapping from id to Item, one Item object for each item
\* element (its ref is the element's position), a later element replacing an
\* earlier one of the same key
parseManifest(rawItems) ==
    [k \in { ManifestKey(rawItems[i]) : i \in 1..Len(rawItems) } |->
        LET at == { i \in 1..Len(rawItems) : ManifestKey(rawItems[i]) = k }
            last == CHOOSE i \in at : \A j \in at : i >= j
        IN  Item(last, rawItems[last].id, rawItems[last].href,
                 rawItems[last].mediaType)]

\* rawManifest[idref]
Lookup(manifest, key) ==
    IF key \in DOMAIN manifest THEN manifest[key] ELSE NoItem

\* l && l.hasOwnProperty("id")
HasOwnId(l) == l # NoItem /\ l.id # Undefined

\* toArray: a single element becomes a one-element array, an array stays
toArray(x) == IF x.kind = "single" THEN <<x.ref>> ELSE x.refs

NoOpenError == [kind |-> "none", index |-> -1, item |-> NoItem]
\* TypeError(`Missing id at index ${index} | item, ${l}`)
MissingIdError(index, l) == [kind |-> "TypeError", index |-> index, item |-> l]

\* the Spine parseSpine starts from: toc "ncx" and no contents, overridden by
\* the attributes of the spine element
SpineOf(attrs, contents) ==
    [toc |-> IF attrs.toc = Undefined THEN "ncx" ELSE attrs.toc,
     ppd |-> attrs.ppd,
     contents |-> contents]

\* itemref.map(...): the Items looked up, in the order of the itemrefs
MapItemrefs(refs, manifest) ==
    [i \in 1..Len(refs) |-> Lookup(manifest, refs[i].idref)]

MapItemrefsReversed(refs, manifest) ==
    [i \in 1..Len(refs) |-> Lookup(manifest, refs[Len(refs) + 1 - i].idref)]

\* the position (from 1) of the first itemref the callback throws for, 0 if none
FirstMissing(refs, manifest) ==
    LET bad == { i \in 1..Len(refs) : ~HasOwnId(Lookup(manifest, refs[i].idref)) }
    IN  IF bad = {} THEN 0 ELSE CHOOSE i \in bad : \A j \in bad : i <= j

LastMissing(refs, manifest) ==
    LET bad == { i \in 1..Len(refs) : ~HasOwnId(Lookup(manifest, refs[i].idref)) }
    IN  IF bad = {} THEN 0 ELSE CHOOSE i \in bad : \A j \in bad : i >= j

parseSpineReversed(raw, manifest) ==
    IF raw.itemref.kind = "absent"
    THEN [ok |-> TRUE, spine |-> SpineOf(raw.attrs, <<>>), error |-> NoOpenError]
    ELSE LET refs == toArray(raw.itemref)
             bad == FirstMissing(refs, manifest)
         IN  IF bad # 0
             THEN [ok |-> FALSE, spine |-> SpineOf(raw.attrs, <<>>),
                   error |-> MissingIdError(bad - 1,
                                Lookup(manifest, refs[bad].idref))]
             ELSE [ok |-> TRUE,
                   spine |-> SpineOf(raw.attrs, MapItemrefsReversed(refs, manifest)),
                   error |-> NoOpenError]

parseSpineLastMissing(raw, manifest) ==
    IF raw.itemref.kind = "absent"
    THEN [ok |-> TRUE, spine |-> SpineOf(raw.attrs, <<>>), error |-> NoOpenError]
    ELSE LET refs == toArray(raw.itemref)
             bad == LastMissing(refs, manifest)
         IN  IF bad # 0
             THEN [ok |-> FALSE, spine |-> SpineOf(raw.attrs, <<>>),
                   error |-> MissingIdError(bad - 1,
                                Lookup(manifest, refs[bad].idref))]
             ELSE [ok |-> TRUE,
                   spine |-> SpineOf(raw.attrs, MapItemrefs(refs, manifest)),
                   error |-> NoOpenError]

\* parseSpine: the Spine, or the TypeError of the first itemref whose lookup
\* gives no Item with an id (index counts from 0)
parseSpine(raw, manifest) ==
    IF raw.itemref.kind = "absent"
    THEN [ok |-> TRUE, spine |-> SpineOf(raw.attrs, <<>>), error |-> NoOpenError]
    ELSE LET refs == toArray(raw.itemref)
             bad == FirstMissing(refs, manifest)
         IN  IF bad # 0
             THEN [ok |-> FALSE, spine |-> SpineOf(raw.attrs, <<>>),
                   error |-> MissingIdError(bad - 1,
                                Lookup(manifest, refs[bad].idref))]
             ELSE [ok |-> TRUE,
                   spine |-> SpineOf(raw.attrs, MapItemrefs(refs, manifest)),
                   error |-> NoOpenError]

(***************************************************************************)
(* open, parseRootFile, prepareEmit                                        *)
(***************************************************************************)
EV == <<"root", "metadata", "manifest", "spine", "flow", "toc", "loaded">>
EVNames == { EV[i] : i \in 1..Len(EV) }

\* the item elements a manifest of this model is put together from
RawItems ==
    { [id |-> "a", href |-> <<"Q","/","q">>, mediaType |-> XHTML],
      [id |-> "b", href |-> <<"U">>, mediaType |-> PNG],
      [id |-> Undefined, href |-> <<"q","q">>, mediaType |-> XHTML] }

\* the idref values an itemref of this model carries; "zz" is in no manifest
Idrefs == { "a", "b", "zz", "undefined" }
Itemrefs == { [idref |-> k] : k \in Idrefs }

RawItemrefs ==
    { [kind |-> "absent", ref |-> [idref |-> ""], refs |-> <<>>] } \cup
    { [kind |-> "single", ref |-> r, refs |-> <<>>] : r \in Itemrefs } \cup
    { [kind |-> "array", ref |-> [idref |-> ""], refs |-> q] :
        q \in SeqsUpTo(Itemrefs, MaxRefs) }

\* the attributes of the spine element with the version of the package
PackageFlavours ==
    { [attrs |-> [toc |-> Undefined, ppd |-> Undefined], version |-> Undefined],
      [attrs |-> [toc |-> "toc", ppd |-> "rtl"], version |-> "3.0"] }

Packages ==
    { [metadata |-> "metadata", manifest |-> m,
       spine |-> [itemref |-> r, attrs |-> f.attrs], version |-> f.version] :
        m \in SeqsUpTo(RawItems, MaxItems), r \in RawItemrefs,
        f \in PackageFlavours }

\* the listeners given: all of them, none, or all but one
ListenerSets == { EVNames, {} } \cup { EVNames \ {e} : e \in EVNames }

\* the value of parts.toc: a TableOfContents, or undefined
TOCValue(t) == [defined |-> TRUE, map |-> t]
UndefinedTOC == [defined |-> FALSE, map |-> EmptyTOC]

\* parseMetadata, parseFlow: the metadata as given, the Flow mirroring the
\* spine contents
parseMetadata(m) == m
parseFlow(contents) == [items |-> contents]

\* the Parts before parseRootFile runs
NoParts ==
    [metadata |-> Undefined, manifest |-> <<>>,
     spine |-> [toc |-> "", ppd |-> Undefined, contents |-> <<>>],
     flow |-> parseFlow(<<>>), toc |-> TOCValue(EmptyTOC), version |-> Undefined]

\* const parts: Parts = {...} at the head of parseRootFile
NewParts(p) ==
    [metadata |-> parseMetadata(p.metadata), manifest |-> <<>>,
     spine |-> [toc |-> "", ppd |-> Undefined, contents |-> <<>>],
     flow |-> parseFlow(<<>>), toc |-> TOCValue(EmptyTOC),
     version |-> IF p.version = Undefined THEN "2.0" ELSE p.version]

\* what a nav-map or nav-document strategy can give: a TableOfContents with
\* an entry for an item of the manifest
NavTOCs(manifest) ==
    { <<[key |-> manifest[k].id,
         value |-> [title |-> "Title", order |-> 0, id |-> manifest[k].id,
                    href |-> manifest[k].href,
                    mediaType |-> manifest[k].mediaType]]>> :
        k \in { x \in DOMAIN manifest : manifest[x].id # Undefined } }

\* parseTOC: the result of the first strategy that gives a non-empty
\* TableOfContents, else that of the spine-order fallback; or no value
parseTOC(manifest, spine) ==
    { [strategy |-> "navMap", toc |-> TOCValue(t)] : t \in NavTOCs(manifest) } \cup
    { [strategy |-> "navDoc", toc |-> TOCValue(t)] : t \in NavTOCs(manifest) } \cup
    { [strategy |-> "spine", toc |-> TOCValue(walkSpine(spine))],
      [strategy |-> "none", toc |-> UndefinedTOC] }

\* prepareEmit(listeners)(ev, args): listeners[ev]?.(args)
prepareEmitAll(ls, log, ev, args) == Append(log, [ev |-> ev, args |-> args])

prepareEmit(ls, log, ev, args) ==
    IF ev \in ls THEN Append(log, [ev |-> ev, args |-> args]) ELSE log

Emit(ev, args) ==
    /\ emitted' = Append(emitted, [ev |-> ev, args |-> args])
    /\ delivered' = prepareEmit(listeners, delivered, ev, args)

ParserError == [kind |-> "ParserError", index |-> -1, item |-> NoItem]
NoTOCError == [kind |-> "NO TOC", index |-> -1, item |-> NoItem]

\* open: createParser has given the parser; emit(EV.root, parser.root.xml)
Open ==
    /\ pc = "start"
    /\ Emit("root", pkg)
    /\ pc' = "metadata"
    /\ UNCHANGED <<pkg, listeners, parts, err, tocStrategy, readerVars, walkVars, retrVars>>

\* open: createParser throws (the archive or its container is refused)
OpenFails ==
    /\ pc = "start"
    /\ pc' = "failed"
    /\ err' = ParserError
    /\ UNCHANGED <<pkg, listeners, parts, emitted, delivered, tocStrategy,
                   readerVars, walkVars, retrVars>>

StageMetadata ==
    /\ pc = "metadata"
    /\ parts' = NewParts(pkg)
    /\ Emit("metadata", parts'.metadata)
    /\ pc' = "manifest"
    /\ UNCHANGED <<pkg, listeners, err, tocStrategy, readerVars, walkVars, retrVars>>

StageManifest ==
    /\ pc = "manifest"
    /\ parts' = [parts EXCEPT !.manifest = parseManifest(pkg.manifest)]
    /\ Emit("manifest", parts'.manifest)
    /\ pc' = "spine"
    /\ UNCHANGED <<pkg, listeners, err, tocStrategy, readerVars, walkVars, retrVars>>

StageSpine ==
    /\ pc = "spine"
    /\ LET r == parseSpine(pkg.spine, parts.manifest)
       IN  IF r.ok
           THEN /\ parts' = [parts EXCEPT !.spine = r.spine]
                /\ Emit("spine", parts'.spine)
                /\ pc' = "flow"
                /\ err' = err
           ELSE /\ pc' = "failed"
                /\ err' = r.error
                /\ UNCHANGED <<parts, emitted, delivered>>
    /\ UNCHANGED <<pkg, listeners, tocStrategy, readerVars, walkVars, retrVars>>

StageFlow ==
    /\ pc = "flow"
    /\ parts' = [parts EXCEPT !.flow = parseFlow(parts.spine.contents)]
    /\ Emit("flow", parts'.flow)
    /\ pc' = "toc"
    /\ UNCHANGED <<pkg, listeners, err, tocStrategy, readerVars, walkVars, retrVars>>

\* if (parts.toc)
Truthy(toc) == toc.defined

StageTOC ==
    /\ pc = "toc"
    /\ \E r \in parseTOC(parts.manifest, parts.spine) :
          /\ parts' = [parts EXCEPT !.toc = r.toc]
          /\ tocStrategy' = r.strategy
          /\ IF Truthy(r.toc)
             THEN /\ Emit("toc", parts'.toc)
                  /\ pc' = "loaded"
                  /\ err' = err
             ELSE /\ pc' = "failed"
                  /\ err' = NoTOCError
                  /\ UNCHANGED <<emitted, delivered>>
    /\ UNCHANGED <<pkg, listeners, readerVars, walkVars, retrVars>>

StageLoaded ==
    /\ pc = "loaded"
    /\ Emit("loaded", parts)
    /\ pc' = "done"
    /\ UNCHANGED <<pkg, listeners, parts, err, tocStrategy, readerVars, walkVars, retrVars>>

(***************************************************************************)
(* Retriever                                                               *)
(***************************************************************************)
\* String.prototype.trim
RECURSIVE trimStart(_)
trimStart(t) == IF t # <<>> /\ Head(t) = " " THEN trimStart(Tail(t)) ELSE t
RECURSIVE trimEnd(_)
trimEnd(t) ==
    IF t # <<>> /\ t[Len(t)] = " " THEN trimEnd(SubSeq(t, 1, Len(t) - 1)) ELSE t
trim(t) == trimEnd(trimStart(t))

\* ALLOWED_MIMES.test(t)
ALLOWED_MIMES(t) == toLowerCase(t) \in { XHTML, SVG, CSS }

\* /^image\//i.test(t)
ImagePattern(t) ==
    Len(t) >= 6 /\ toLowerCase(SubSeq(t, 1, 6)) = <<"i","m","a","g","e","/">>

NoCallError == [kind |-> "none", id |-> "", read |-> NoError]
UnknownItemError(id) == [kind |-> "UnknownItemError", id |-> id, read |-> NoError]
RetrievalMIMEError(id) == [kind |-> "MIMEError", id |-> id, read |-> NoError]
ReadError(id, e) == [kind |-> e.kind, id |-> id, read |-> e]

NoCall == [op |-> "none", id |-> "", called |-> FALSE, ok |-> FALSE,
           item |-> NoItem, value |-> Undefined, error |-> NoCallError]

Failed(op, id, e) ==
    [op |-> op, id |-> id, called |-> TRUE, ok |-> FALSE,
     item |-> NoItem, value |-> Undefined, error |-> e]
Returned(op, id, item, value) ==
    [op |-> op, id |-> id, called |-> TRUE, ok |-> TRUE,
     item |-> item, value |-> value, error |-> NoCallError]

\* parser.reader.read(href, type) made by a retrieval, as lastRead records it
ReadBy(ents, href, type) ==
    [name |-> href, type |-> type, called |-> TRUE,
     decodes |-> ReadDecodes(ents, href, type),
     outcome |-> ReadOutcome(ents, href, type)]

\* searchManifestOrPanic
searchManifestOrPanic(p, id) ==
    LET l == Lookup(p.manifest, id)
    IN  IF l = NoItem
        THEN Failed("searchManifestOrPanic", id, UnknownItemError(id))
        ELSE Returned("searchManifestOrPanic", id, l, Undefined)

\* the outcome of a retrieval whose checks passed and whose read is rd
AfterRead(op, id, item, rd) ==
    IF rd.outcome.ok THEN Returned(op, id, item, rd.outcome.data)
    ELSE Failed(op, id, ReadError(id, rd.outcome.error))

getContentReadFirst(p, ents, id) ==
    LET found == searchManifestOrPanic(p, id)
        elem == found.item
        rd == ReadBy(ents, elem.href, elem.mediaType)
    IN  IF ~found.ok
        THEN [call |-> Failed("getContent", id, found.error), read |-> NoRead]
        ELSE IF ~ALLOWED_MIMES(elem.mediaType)
        THEN [call |-> Failed("getContent", id, RetrievalMIMEError(id)),
              read |-> rd]
        ELSE [call |-> AfterRead("getContent", id, elem, rd), read |-> rd]

\* getContent: the outcome of the call and the read it makes of the archive
getContent(p, ents, id) ==
    LET found == searchManifestOrPanic(p, id)
        elem == found.item
    IN  IF ~found.ok
        THEN [call |-> Failed("getContent", id, found.error), read |-> NoRead]
        ELSE IF ~ALLOWED_MIMES(elem.mediaType)
        THEN [call |-> Failed("getContent", id, RetrievalMIMEError(id)),
              read |-> NoRead]
        ELSE LET rd == ReadBy(ents, elem.href, elem.mediaType)
             IN  [call |-> AfterRead("getContent", id, elem, rd), read |-> rd]

\* getImage: the media type is trimmed for the check, not for the read
getImage(p, ents, id) ==
    LET found == searchManifestOrPanic(p, id)
        item == found.item
    IN  IF ~found.ok
        THEN [call |-> Failed("getImage", id, found.error), read |-> NoRead]
        ELSE IF ~ImagePattern(trim(item.mediaType))
        THEN [call |-> Failed("getImage", id, RetrievalMIMEError(id)),
              read |-> NoRead]
        ELSE LET rd == ReadBy(ents, item.href, item.mediaType)
             IN  [call |-> AfterRead("getImage", id, item, rd), read |-> rd]

\* what a call of the Retriever leaves alone
RetrievalFrame ==
    UNCHANGED <<zip, entries, container, rpc, rerr, decoded, walkVars,
                pkg, listeners, parts, err, emitted, delivered, tocStrategy>>

RetrievalIds == Idrefs

SearchManifestOrPanic ==
    /\ pc = "done"
    /\ \E id \in RetrievalIds :
          /\ lastCall' = searchManifestOrPanic(parts, id)
          /\ lastRead' = NoRead
    /\ pc' = "returned"
    /\ RetrievalFrame

GetContent ==
    /\ pc = "done"
    /\ \E id \in RetrievalIds :
          /\ lastCall' = getContent(parts, entries, id).call
          /\ lastRead' = getContent(parts, entries, id).read
    /\ pc' = "returned"
    /\ RetrievalFrame

GetImage ==
    /\ pc = "done"
    /\ \E id \in RetrievalIds :
          /\ lastCall' = getImage(parts, entries, id).call
          /\ lastRead' = getImage(parts, entries, id).read
    /\ pc' = "returned"
    /\ RetrievalFrame

\* the caller takes the outcome; the Epub is idle again
RetrievalReturn ==
    /\ pc = "returned"
    /\ pc' = "done"
    /\ lastCall' = NoCall
    /\ lastRead' = NoRead
    /\ RetrievalFrame

(***************************************************************************)
(* Specifications                                                          *)
(***************************************************************************)
ReaderIdle ==
    /\ zip = <<>>
    /\ entries = <<>>
    /\ container = NoContainer
    /\ rpc = "new"
    /\ rerr = NoError
    /\ decoded = <<>>
    /\ lastRead = NoRead

WalkIdle ==
    /\ wsSpine = [toc |-> "ncx", contents |-> <<>>]
    /\ wsToc = EmptyTOC
    /\ wsDone = FALSE

OpenIdle ==
    /\ pkg = [metadata |-> Undefined, manifest |-> <<>>,
              spine |-> [itemref |-> [kind |-> "absent", ref |-> [idref |-> ""],
                                      refs |-> <<>>],
                         attrs |-> [toc |-> Undefined, ppd |-> Undefined]],
              version |-> Undefined]
    /\ listeners = {}
    /\ parts = NoParts
    /\ pc = "start"
    /\ err = NoOpenError
    /\ emitted = <<>>
    /\ delivered = <<>>
    /\ tocStrategy = "pending"

\* ---- the Reader: init, then calls of read ----
ReaderInit ==
    /\ zip \in Archives
    /\ entries = <<>>
    /\ container = NoContainer
    /\ rpc = "new"
    /\ rerr = NoError
    /\ decoded = <<>>
    /\ lastRead = NoRead
    /\ WalkIdle
    /\ OpenIdle
    /\ lastCall = NoCall

ReaderNext == GetEntries \/ CheckMimeType \/ ReadContainer \/ ReadCall \/ ReadReturn

SpecReader == ReaderInit /\ [][ReaderNext]_vars

\* ---- walkSpine on any Spine ----
WalkInit ==
    /\ wsSpine \in WalkSpines
    /\ wsToc = EmptyTOC
    /\ wsDone = FALSE
    /\ ReaderIdle
    /\ OpenIdle
    /\ lastCall = NoCall

WalkNext == WalkSpine

SpecWalk == WalkInit /\ [][WalkNext]_vars

\* ---- open: the stages of parseRootFile on any package ----
Init ==
    /\ pkg \in Packages
    /\ listeners \in ListenerSets
    /\ parts = NoParts
    /\ pc = "start"
    /\ err = NoOpenError
    /\ emitted = <<>>
    /\ delivered = <<>>
    /\ tocStrategy = "pending"
    /\ ReaderIdle
    /\ WalkIdle
    /\ lastCall = NoCall

Next ==
    \/ Open
    \/ OpenFails
    \/ StageMetadata
    \/ StageManifest
    \/ StageSpine
    \/ StageFlow
    \/ StageTOC
    \/ StageLoaded

Spec == Init /\ [][Next]_vars

\* ---- the Retriever of an opened Epub ----
\* the item elements of the books retrieval is tried on
RetrieverItems ==
    { [id |-> "a", href |-> <<"/","Q","/","q">>, mediaType |-> XHTML],
      [id |-> "a", href |-> <<"q","q">>, mediaType |-> <<"T","e","x","t","/","C","S","S">>],
      [id |-> "b", href |-> <<"U">>, mediaType |-> <<" ","i","m","a","g","e","/","p","n","g">>],
      [id |-> "b", href |-> <<"U">>, mediaType |-> <<"t","e","x","t","/","p","l","a","i","n">>],
      [id |-> Undefined, href |-> <<"U">>, mediaType |-> PNG] }

\* the spine that refers to every item element that has an id, in order
RECURSIVE RefsToAll(_)
RefsToAll(rawItems) ==
    IF rawItems = <<>> THEN <<>>
    ELSE IF Head(rawItems).id = Undefined THEN RefsToAll(Tail(rawItems))
    ELSE <<[idref |-> Head(rawItems).id]>> \o RefsToAll(Tail(rawItems))

Books ==
    { [metadata |-> "metadata", manifest |-> m,
       spine |-> [itemref |-> [kind |-> "array", ref |-> [idref |-> ""],
                               refs |-> RefsToAll(m)],
                  attrs |-> [toc |-> Undefined, ppd |-> Undefined]],
       version |-> Undefined] :
        m \in { x \in SeqsUpTo(RetrieverItems, MaxItems) : RefsToAll(x) # <<>> } }

\* the archive of these books
BookArchive ==
    << [filename |-> INFO_TARGET, directory |-> FALSE, content |-> INFO_MIME],
       [filename |-> <<"M","E","T","A","-","I","N","F","/",
                       "c","o","n","t","a","i","n","e","r",".","x","m","l">>,
        directory |-> FALSE, content |-> "<container/>"],
       [filename |-> <<"Q","/","q">>, directory |-> FALSE, content |-> "<html/>"],
       [filename |-> <<"U">>, directory |-> FALSE, content |-> "png"] >>

\* the Parts parseRootFile returns for a package whose spine resolves and
\* whose table of contents comes from the spine
PartsOf(p) ==
    LET m == parseManifest(p.manifest)
        sp == parseSpine(p.spine, m).spine
    IN  [NewParts(p) EXCEPT !.manifest = m, !.spine = sp,
                            !.flow = parseFlow(sp.contents),
                            !.toc = TOCValue(walkSpine(sp))]

EmittedBy(p) ==
    << [ev |-> "root", args |-> p],
       [ev |-> "metadata", args |-> PartsOf(p).metadata],
       [ev |-> "manifest", args |-> PartsOf(p).manifest],
       [ev |-> "spine", args |-> PartsOf(p).spine],
       [ev |-> "flow", args |-> PartsOf(p).flow],
       [ev |-> "toc", args |-> PartsOf(p).toc],
       [ev |-> "loaded", args |-> PartsOf(p)] >>

RetrieverInit ==
    /\ pkg \in Books
    /\ listeners = {}
    /\ parts = PartsOf(pkg)
    /\ pc = "done"
    /\ err = NoOpenError
    /\ emitted = EmittedBy(pkg)
    /\ delivered = <<>>
    /\ tocStrategy = "spine"
    /\ zip = BookArchive
    /\ entries = BookArchive
    /\ container = LoadedEntry(ReadOutcome(BookArchive, INFO_CONTAINER_ID, NoType))
    /\ rpc = "ready"
    /\ rerr = NoError
    /\ decoded = ReadDecodes(BookArchive, INFO_TARGET, NoType)
                    \o ReadDecodes(BookArchive, INFO_CONTAINER_ID, NoType)
    /\ lastRead = NoRead
    /\ WalkIdle
    /\ lastCall = NoCall

RetrieverNext ==
    \/ SearchManifestOrPanic
    \/ GetContent
    \/ GetImage
    \/ RetrievalReturn

SpecRetriever == RetrieverInit /\ [][RetrieverNext]_vars

(***************************************************************************)
(* Claims about parseSpine and open                                        *)
(***************************************************************************)
\* the itemref elements of the package, a single one counting as one
Refs ==
    IF pkg.spine.itemref.kind = "absent" THEN <<>>
    ELSE IF pkg.spine.itemref.kind = "single" THEN <<pkg.spine.itemref.ref>>
    ELSE pkg.spine.itemref.refs

\* parseSpine has run
SpineRan ==
    /\ pc \notin {"start", "metadata", "manifest", "spine"}
    /\ ~(pc = "failed" /\ err = ParserError)

InManifest(i) == Refs[i].idref \in DOMAIN parts.manifest
Resolvable(i) == InManifest(i) /\ parts.manifest[Refs[i].idref].id # Undefined

EventNames(log) == [i \in 1..Len(log) |-> log[i].ev]
IsPrefix(a, b) == Len(a) <= Len(b) /\ a = SubSeq(b, 1, Len(a))

\* C1: when every itemref names an id of the manifest whose Item has an id,
\* contents has one element for each itemref (a single itemref counting as
\* one), in the same order, the element at position i being the manifest's
\* own Item of idref i; without itemref contents is empty; no error is raised.
C1_ContentsAreTheManifestItems ==
    (SpineRan /\ \A i \in 1..Len(Refs) : Resolvable(i)) =>
        /\ err.kind # "TypeError"
        /\ Len(parts.spine.contents) = Len(Refs)
        /\ \A i \in 1..Len(Refs) :
              parts.spine.contents[i] = parts.manifest[Refs[i].idref]

\* parseSpine has resolved two itemrefs that name different items
C1_Witness ==
    /\ SpineRan
    /\ Len(Refs) = 2
    /\ Resolvable(1) /\ Resolvable(2)
    /\ Refs[1] # Refs[2]
    /\ Len(parts.spine.contents) = 2

\* C2: when the itemref at index k names an id that is not in the manifest
\* and every itemref before it resolves, parseSpine fails with the TypeError
\* that names index k (so the lowest, when several dangle) and no Spine is
\* returned: parts.spine stays as it was and the spine event is not emitted.
C2_DanglingItemrefNamesItsIndex ==
    SpineRan =>
        \A k \in 1..Len(Refs) :
            (~InManifest(k) /\ \A j \in 1..(k - 1) : Resolvable(j)) =>
                /\ pc = "failed"
                /\ err = MissingIdError(k - 1, NoItem)
                /\ parts.spine = NewParts(pkg).spine
                /\ \A i \in 1..Len(emitted) : emitted[i].ev # "spine"

\* parseSpine has failed at index 1: the first itemref resolved, the second
\* did not
C2_Witness ==
    /\ pc = "failed"
    /\ err.kind = "TypeError"
    /\ err.index = 1
    /\ Len(Refs) >= 2
    /\ Resolvable(1)
    /\ ~InManifest(2)

\* C6: when the spine contents is empty and neither the nav-map nor the
\* nav-document strategy resolves, open fails with the no-TOC error: no Parts
\* is returned and neither the toc nor the loaded event is emitted.
C6_EmptyTocFailsOpen ==
    ( /\ tocStrategy \notin {"pending", "navMap", "navDoc"}
      /\ parts.spine.contents = <<>> ) =>
        /\ pc = "failed"
        /\ err = NoTOCError
        /\ \A i \in 1..Len(emitted) : emitted[i].ev \notin {"toc", "loaded"}

\* the argument an event is emitted with: the structure its stage built
CarriesItsStructure(e) ==
    CASE e.ev = "root" -> e.args = pkg
      [] e.ev = "metadata" -> e.args = parts.metadata
      [] e.ev = "manifest" -> e.args = parts.manifest
      [] e.ev = "spine" -> e.args = parts.spine
      [] e.ev = "flow" -> e.args = parts.flow
      [] e.ev = "toc" -> e.args = parts.toc
      [] e.ev = "loaded" -> e.args = parts

Heard(e) == e.ev \in listeners

\* C7 (as amended): the events open emits are a prefix of root, metadata,
\* manifest, spine, flow, toc, loaded (root, carrying the root file, is
\* emitted by open before the first stage), each at most once and each
\* carrying the structure just built; the sequence is complete exactly when
\* open returns Parts; when a stage fails the sequence ends before that
\* stage's event.  The listeners called are the emitted events that have a
\* listener, in the same order: a missing listener fails nothing.
C7_EventsArePrefixFromRoot ==
    /\ IsPrefix(EventNames(emitted), EV)
    /\ \A i \in 1..Len(emitted) : CarriesItsStructure(emitted[i])
    /\ (pc = "done") <=> (EventNames(emitted) = EV)
    /\ (pc = "failed" /\ err = ParserError) => emitted = <<>>
    /\ (pc = "failed" /\ err.kind = "TypeError") =>
            EventNames(emitted) = SubSeq(EV, 1, 3)
    /\ (pc = "failed" /\ err = NoTOCError) =>
            EventNames(emitted) = SubSeq(EV, 1, 5)
    /\ delivered = SelectSeq(emitted, Heard)

\* C7 as stated: the events emitted are a prefix of metadata, manifest,
\* spine, flow, toc, loaded.
C7_EventsArePrefixFromMetadata ==
    IsPrefix(EventNames(emitted), SubSeq(EV, 2, 7))

\* open has returned Parts to a caller that listens to every event but spine
C7_Witness ==
    /\ pc = "done"
    /\ listeners = EVNames \ {"spine"}
    /\ Len(delivered) = 6
    /\ Len(emitted) = 7

(***************************************************************************)
(* Claims about walkSpine                                                  *)
(***************************************************************************)
SpineIds == { wsSpine.contents[p].id : p \in 1..Len(wsSpine.contents) }
AllIdsDefined == Undefined \notin SpineIds
PositionsOf(id) ==
    { p \in 1..Len(wsSpine.contents) : wsSpine.contents[p].id = id }
FirstPosition(id) == CHOOSE p \in PositionsOf(id) : \A r \in PositionsOf(id) : p <= r
LastPosition(id) == CHOOSE p \in PositionsOf(id) : \A r \in PositionsOf(id) : p >= r

\* C3 (as amended): on a spine whose N items all have an id, the
\* TableOfContents has one entry for each different id; the entry of an id has
\* as order the (zero-based) last spine position that holds the id, and
\* iteration visits the entries in the order of the ids' first positions.  So
\* when the N ids are pairwise different there are exactly N entries, the
\* entry of the item at position p has order p, and iteration is in spine
\* order.
C3_SpineOrderPerDistinctId ==
    (wsDone /\ AllIdsDefined) =>
        /\ Len(wsToc) = Cardinality(SpineIds)
        /\ \A k \in 1..Len(wsToc) :
              /\ wsToc[k].key \in SpineIds
              /\ wsToc[k].value.order = LastPosition(wsToc[k].key) - 1
        /\ \A k, l \in 1..Len(wsToc) :
              k < l => FirstPosition(wsToc[k].key) < FirstPosition(wsToc[l].key)
        /\ Cardinality(SpineIds) = Len(wsSpine.contents) =>
              \A p \in 1..Len(wsSpine.contents) :
                  /\ wsToc[p].key = wsSpine.contents[p].id
                  /\ wsToc[p].value.order = p - 1

\* C3 as stated: N items with an id, the same id several times included,
\* give exactly N entries, the entry of position p carrying order p, visited
\* in spine order.
C3_OneEntryPerSpineItem ==
    (wsDone /\ AllIdsDefined) =>
        /\ Len(wsToc) = Len(wsSpine.contents)
        /\ \A p \in 1..Len(wsSpine.contents) :
              /\ wsToc[p].key = wsSpine.contents[p].id
              /\ wsToc[p].value.order = p - 1

\* walkSpine has returned for a spine that holds one id twice and another id
C3_Witness ==
    /\ wsDone
    /\ AllIdsDefined
    /\ Len(wsSpine.contents) = 3
    /\ Cardinality(SpineIds) = 2
    /\ Len(wsToc) = 2

\* C4: the order values of the returned TableOfContents, read in iteration
\* order, are 0, 1, 2, ..., size-1, whatever spine is given (items without
\* id and repeated ids included).
C4_OrdersContiguousFromZero ==
    wsDone => \A k \in 1..Len(wsToc) : wsToc[k].value.order = k - 1

\* C5: no key of the returned TableOfContents is undefined and every stored
\* Chapter has the defined id it is stored under; an item without id is
\* skipped without an error, the items after it are still processed.
C5_NoUndefinedKey ==
    wsDone =>
        /\ \A k \in 1..Len(wsToc) :
              /\ wsToc[k].key # Undefined
              /\ wsToc[k].value.id = wsToc[k].key
        /\ { wsToc[k].key : k \in 1..Len(wsToc) } = SpineIds \ {Undefined}

\* walkSpine has returned for a spine whose first item has no id and whose
\* later item has one, and that later item is in the TableOfContents
C5_Witness ==
    /\ wsDone
    /\ Len(wsSpine.contents) >= 2
    /\ wsSpine.contents[1].id = Undefined
    /\ wsSpine.contents[2].id # Undefined
    /\ TocHas(wsToc, wsSpine.contents[2].id)

(***************************************************************************)
(* Claims about the Reader                                                 *)
(***************************************************************************)
\* the entries a looked-for name fn can resolve to: files whose lower-cased
\* name contains fn or is contained in it
Candidates(fn) ==
    { i \in 1..Len(entries) :
        /\ ~entries[i].directory
        /\ \/ includes(toLowerCase(entries[i].filename), fn)
           \/ includes(fn, toLowerCase(entries[i].filename)) }

ResolvesTo(fn, out, decodes) ==
    /\ out.ok
    /\ out.file \in Candidates(fn)
    /\ \A j \in Candidates(fn) : out.file <= j
    /\ out.data = entries[out.file].content
    /\ decodes = <<out.file>>

\* C9 (as amended): read(name) looks for the name with one leading '/'
\* removed, URI-decoded and lower-cased.  It returns the first entry in
\* listing order that is no directory and whose lower-cased file name
\* contains, or is contained in, that normalised name; when there is none it
\* fails with a not-found error that names the normalised name, and a name
\* with a malformed escape fails with a URI error; a failed read decodes no
\* entry.
C9_ReadResolvesNormalisedName ==
    lastRead.called =>
        LET s == StripSlash(lastRead.name)
            out == lastRead.outcome
        IN  IF MalformedURI(s)
            THEN ~out.ok /\ out.error = URIError /\ lastRead.decodes = <<>>
            ELSE LET fn == toLowerCase(decodeURI(s))
                 IN  IF Candidates(fn) = {}
                     THEN /\ ~out.ok
                          /\ out.error = NotFoundError(fn)
                          /\ lastRead.decodes = <<>>
                     ELSE ResolvesTo(fn, out, lastRead.decodes)

\* C9 as stated: the name is matched after stripping one leading '/' and
\* lower-casing only, and the not-found error names the requested name.
C9_ReadResolvesRequestedName ==
    lastRead.called =>
        LET fn == toLowerCase(StripSlash(lastRead.name))
            out == lastRead.outcome
        IN  IF Candidates(fn) = {}
            THEN /\ ~out.ok
                 /\ out.error = NotFoundError(lastRead.name)
                 /\ lastRead.decodes = <<>>
            ELSE ResolvesTo(fn, out, lastRead.decodes)

\* a read of a name with a leading '/' and an upper-case letter has found an
\* entry that is not the first of the listing
C9_Witness ==
    /\ lastRead.called
    /\ lastRead.outcome.ok
    /\ lastRead.outcome.file > 1
    /\ Len(lastRead.name) > 1
    /\ lastRead.name[1] = "/"
    /\ toLowerCase(lastRead.name) # lastRead.name

\* the entry checkMimeType reads: the first file of the listing whose
\* lower-cased name contains 'mimetype' or is contained in it
MimetypeEntry ==
    IF Candidates(INFO_TARGET) = {} THEN 0
    ELSE CHOOSE i \in Candidates(INFO_TARGET) :
            \A j \in Candidates(INFO_TARGET) : i <= j

EntryOf(href) ==
    LET fn == toLowerCase(StripSlash(href))
    IN  IF Candidates(fn) = {} THEN 0
        ELSE CHOOSE i \in Candidates(fn) : \A j \in Candidates(fn) : i <= j

\* whether the media type passes the check of the operation
TypeAccepted(op, t) ==
    CASE op = "getContent" ->
            toLowerCase(t) \in { XHTML, SVG, CSS }
      [] op = "getImage" ->
            LET u == toLowerCase(trim(t))
            IN  Len(u) >= 6 /\ SubSeq(u, 1, 6) = SubSeq(PNG, 1, 6)
      [] OTHER -> TRUE

\* C8: a retrieval for an id that is not in the manifest fails with the
\* unknown-item error, one whose item's media type does not match fails with
\* the format-mismatch error; in both cases the archive is not read; no
\* retrieval changes parts or the archive listing, and a retrieval for a
\* valid id gives the content of the entry its href resolves to, whatever
\* retrievals failed before.
C8_FailedRetrievalChangesNothing ==
    /\ parts = PartsOf(pkg)
    /\ entries = zip
    /\ lastCall.called =>
          IF lastCall.id \notin DOMAIN parts.manifest
          THEN /\ ~lastCall.ok
               /\ lastCall.error = UnknownItemError(lastCall.id)
               /\ lastRead = NoRead
          ELSE LET item == parts.manifest[lastCall.id]
               IN  IF ~TypeAccepted(lastCall.op, item.mediaType)
                   THEN /\ ~lastCall.ok
                        /\ lastCall.error = RetrievalMIMEError(lastCall.id)
                        /\ lastRead = NoRead
                   ELSE IF lastCall.op = "searchManifestOrPanic"
                   THEN lastCall.ok /\ lastCall.item = item /\ lastRead = NoRead
                   ELSE IF EntryOf(item.href) = 0
                   THEN ~lastCall.ok /\ lastCall.error.kind = "NotFound"
                   ELSE /\ lastCall.ok
                        /\ lastCall.value = entries[EntryOf(item.href)].content

\* getContent has failed with the format-mismatch error for an item of the
\* manifest
C8_Witness ==
    /\ lastCall.called
    /\ lastCall.op = "getContent"
    /\ lastCall.id \in DOMAIN parts.manifest
    /\ lastCall.error.kind = "MIMEError"
    /\ lastRead = NoRead

====
